---- MODULE Spec2Model ----
(***************************************************************************)
(* Model of models.py: the validated planet record AstronomicalBody, its   *)
(* JSON round trip, the plain Star record and the main() entry point.      *)
(*                                                                         *)
(* Python str values are sequences of one-character strings.  Python       *)
(* floats are fixed-point integers counting tenths (15 stands for 1.5).    *)
(* A Python value that can be of several types (a keyword argument, a      *)
(* value decoded from JSON) is a tagged record [t |-> type, v |-> <<..>>]. *)
(***************************************************************************)
EXTENDS Integers, Sequences, FiniteSets, TLC

\* ------------------------------------------------------------------------
\* Bounds of the model
\* ------------------------------------------------------------------------
MaxGases == 2
MaxTenths == 3
MaxCut == 3

\* ------------------------------------------------------------------------
\* String literals of the program
\* ------------------------------------------------------------------------
MERCURY == <<"M","e","r","c","u","r","y">>
VENUS == <<"V","e","n","u","s">>
EARTH == <<"E","a","r","t","h">>
MARS == <<"M","a","r","s">>

\* the name set the specification fixes
AcceptedNames == {MERCURY, VENUS, EARTH, MARS}

\* variant: an enumeration that lacks the MARS member
PlanetEnumNoMars == {MERCURY, VENUS, EARTH}

\* PlanetEnum._value2member_map_ : the values of the four members
PlanetEnum == {MERCURY, VENUS, EARTH, MARS}

\* the field names of AstronomicalBody, in declaration order
F_name == <<"n","a","m","e">>
F_radius == <<"r","a","d","i","u","s">>
F_atmosphere == <<"a","t","m","o","s","p","h","e","r","e","_",
                  "c","o","m","p","o","s","i","t","i","o","n">>

\* ------------------------------------------------------------------------
\* Python values
\* ------------------------------------------------------------------------
PyNone == [t |-> "NoneType", v |-> <<>>]
PyStr(s) == [t |-> "str", v |-> s]
PyFloat(x) == [t |-> "float", v |-> <<x>>]
PyList(items) == [t |-> "list", v |-> items]
PyDict(pairs) == [t |-> "dict", v |-> pairs]

\* a list of str, as the Python list of tagged str values
RECURSIVE StrList(_)
StrList(ss) ==
    IF ss = <<>> THEN <<>> ELSE <<PyStr(Head(ss))>> \o StrList(Tail(ss))

\* dict.get(key): the last pair with that key, or "missing"
RECURSIVE DictGet(_, _, _)
DictGet(pairs, key, i) ==
    IF i = 0 THEN [found |-> FALSE, val |-> PyNone]
    ELSE IF pairs[i][1] = key THEN [found |-> TRUE, val |-> pairs[i][2]]
    ELSE DictGet(pairs, key, i - 1)

\* ------------------------------------------------------------------------
\* Number formatting: str(int) and repr(float)
\* ------------------------------------------------------------------------
Digit(d) == CASE d = 0 -> "0" [] d = 1 -> "1" [] d = 2 -> "2" [] d = 3 -> "3"
              [] d = 4 -> "4" [] d = 5 -> "5" [] d = 6 -> "6" [] d = 7 -> "7"
              [] d = 8 -> "8" [] d = 9 -> "9"

DigitChars == {"0","1","2","3","4","5","6","7","8","9"}

DigitVal(c) == CASE c = "0" -> 0 [] c = "1" -> 1 [] c = "2" -> 2 [] c = "3" -> 3
                 [] c = "4" -> 4 [] c = "5" -> 5 [] c = "6" -> 6 [] c = "7" -> 7
                 [] c = "8" -> 8 [] c = "9" -> 9

RECURSIVE NatStr(_)
NatStr(n) == IF n < 10 THEN <<Digit(n)>> ELSE NatStr(n \div 10) \o <<Digit(n % 10)>>

\* str(n) of a Python int
IntStr(n) == IF n < 0 THEN <<"-">> \o NatStr(-n) ELSE NatStr(n)

Abs(x) == IF x < 0 THEN -x ELSE x

\* repr(x) of a Python float with one decimal digit: "6371.0", "-1.5", "0.0"
FloatRepr(x) ==
    (IF x < 0 THEN <<"-">> ELSE <<>>)
        \o NatStr(Abs(x) \div 10) \o <<".">> \o <<Digit(Abs(x) % 10)>>

\* ------------------------------------------------------------------------
\* json.dumps with the default separators (", " and ": ")
\* ------------------------------------------------------------------------
\* variant: string contents written without escaping
EscapeStrNone(s) == s

RECURSIVE EscapeStr(_)
EscapeStr(s) ==
    IF s = <<>> THEN <<>>
    ELSE (IF Head(s) = "\"" THEN <<"\\", "\"">>
          ELSE IF Head(s) = "\\" THEN <<"\\", "\\">>
          ELSE <<Head(s)>>) \o EscapeStr(Tail(s))

Quoted(s) == <<"\"">> \o EscapeStr(s) \o <<"\"">>

RECURSIVE Dumps(_)
RECURSIVE DumpsItems(_, _)
RECURSIVE DumpsPairs(_, _)
Dumps(val) ==
    CASE val.t = "NoneType" -> <<"n","u","l","l">>
      [] val.t = "str" -> Quoted(val.v)
      [] val.t = "float" -> FloatRepr(val.v[1])
      [] val.t = "list" -> <<"[">> \o DumpsItems(val.v, 1) \o <<"]">>
      [] val.t = "dict" -> <<"{">> \o DumpsPairs(val.v, 1) \o <<"}">>
DumpsItems(items, i) ==
    IF i > Len(items) THEN <<>>
    ELSE (IF i > 1 THEN <<",", " ">> ELSE <<>>)
            \o Dumps(items[i]) \o DumpsItems(items, i + 1)
DumpsPairs(pairs, i) ==
    IF i > Len(pairs) THEN <<>>
    ELSE (IF i > 1 THEN <<",", " ">> ELSE <<>>)
            \o Quoted(pairs[i][1]) \o <<":", " ">> \o Dumps(pairs[i][2])
            \o DumpsPairs(pairs, i + 1)

\* ------------------------------------------------------------------------
\* json.loads: a recursive-descent decoder.  Every parser takes the text
\* and a position and returns [ok, val, end]; end is the next position.
\* ------------------------------------------------------------------------
Fail(i) == [ok |-> FALSE, val |-> PyNone, end |-> i]
Ok(val, i) == [ok |-> TRUE, val |-> val, end |-> i]

At(s, i) == IF i >= 1 /\ i <= Len(s) THEN s[i] ELSE "EOF"

RECURSIVE SkipWs(_, _)
SkipWs(s, i) == IF At(s, i) = " " THEN SkipWs(s, i + 1) ELSE i

\* the characters of a string literal; i is just after the opening quote
RECURSIVE ParseStrBody(_, _, _)
ParseStrBody(s, i, acc) ==
    CASE At(s, i) = "EOF" -> Fail(i)
      [] At(s, i) = "\"" -> Ok(PyStr(acc), i + 1)
      [] At(s, i) = "\\" ->
            IF At(s, i + 1) \in {"\"", "\\"}
            THEN ParseStrBody(s, i + 2, Append(acc, At(s, i + 1)))
            ELSE Fail(i)
      [] OTHER -> ParseStrBody(s, i + 1, Append(acc, At(s, i)))

RECURSIVE ParseDigits(_, _, _)
ParseDigits(s, i, acc) ==
    IF At(s, i) \in DigitChars
    THEN ParseDigits(s, i + 1, acc * 10 + DigitVal(At(s, i)))
    ELSE [n |-> acc, end |-> i]

\* -?digits(.digit)? ; the value in tenths
ParseNumber(s, i) ==
    LET neg == At(s, i) = "-"
        j == IF neg THEN i + 1 ELSE i
        ip == ParseDigits(s, j, 0)
        hasFrac == At(s, ip.end) = "." /\ At(s, ip.end + 1) \in DigitChars
        mag == IF hasFrac THEN ip.n * 10 + DigitVal(At(s, ip.end + 1))
               ELSE ip.n * 10
        e == IF hasFrac THEN ip.end + 2 ELSE ip.end
    IN  IF ip.end = j THEN Fail(i)
        ELSE Ok(PyFloat(IF neg THEN -mag ELSE mag), e)

IsNullAt(s, i) ==
    At(s, i) = "n" /\ At(s, i + 1) = "u" /\ At(s, i + 2) = "l" /\ At(s, i + 3) = "l"

RECURSIVE ParseValue(_, _)
RECURSIVE ParseItems(_, _, _)
RECURSIVE ParsePairs(_, _, _)
ParseValue(s, i) ==
    CASE At(s, i) = "\"" -> ParseStrBody(s, i + 1, <<>>)
      [] At(s, i) = "[" ->
            LET j == SkipWs(s, i + 1)
            IN  IF At(s, j) = "]" THEN Ok(PyList(<<>>), j + 1)
                ELSE ParseItems(s, j, <<>>)
      [] At(s, i) = "{" ->
            LET j == SkipWs(s, i + 1)
            IN  IF At(s, j) = "}" THEN Ok(PyDict(<<>>), j + 1)
                ELSE ParsePairs(s, j, <<>>)
      [] At(s, i) = "-" \/ At(s, i) \in DigitChars -> ParseNumber(s, i)
      [] IsNullAt(s, i) -> Ok(PyNone, i + 4)
      [] OTHER -> Fail(i)
ParseItems(s, i, acc) ==
    LET r == ParseValue(s, i)
        j == SkipWs(s, r.end)
    IN  IF ~r.ok THEN Fail(i)
        ELSE IF At(s, j) = "," THEN ParseItems(s, SkipWs(s, j + 1), Append(acc, r.val))
        ELSE IF At(s, j) = "]" THEN Ok(PyList(Append(acc, r.val)), j + 1)
        ELSE Fail(j)
ParsePairs(s, i, acc) ==
    LET k == IF At(s, i) = "\"" THEN ParseStrBody(s, i + 1, <<>>) ELSE Fail(i)
        c == SkipWs(s, k.end)
        r == ParseValue(s, SkipWs(s, c + 1))
        j == SkipWs(s, r.end)
    IN  IF ~k.ok \/ At(s, c) # ":" THEN Fail(i)
        ELSE IF ~r.ok THEN Fail(i)
        ELSE IF At(s, j) = ","
             THEN ParsePairs(s, SkipWs(s, j + 1), Append(acc, <<k.val.v, r.val>>))
        ELSE IF At(s, j) = "}"
             THEN Ok(PyDict(Append(acc, <<k.val.v, r.val>>)), j + 1)
        ELSE Fail(j)

\* json.loads(text): one value, then nothing but whitespace
Loads(s) ==
    LET r == ParseValue(s, SkipWs(s, 1))
    IN  IF r.ok /\ SkipWs(s, r.end) = Len(s) + 1 THEN r ELSE Fail(1)

\* ------------------------------------------------------------------------
\* class AstronomicalBody(BaseModel)
\* ------------------------------------------------------------------------
FieldOk(v) == [ok |-> TRUE, exc |-> "", v |-> v]
FieldErr(exc) == [ok |-> FALSE, exc |-> exc, v |-> <<>>]

\* variant: a name validator that returns v without the membership test
validate_name_unchecked(v) == [raised |-> "", planet_name |-> v]

\* @validator('name')
validate_name(v) ==
    IF v \notin PlanetEnum
    THEN [raised |-> "InvalidPlanetNameException", planet_name |-> v]
    ELSE [raised |-> "", planet_name |-> v]

\* variant: a radius validator with the threshold at 1.0 instead of 0
validate_radius_strict(v) ==
    IF v <= 10 THEN FieldErr("ValueError") ELSE FieldOk(v)

\* @validator('radius')
validate_radius(v) ==
    IF v <= 0 THEN FieldErr("ValueError") ELSE FieldOk(v)

\* the constraint gt=0 of Field(..., gt=0)
radius_gt(v) ==
    IF ~(v > 0) THEN FieldErr("NumberNotGtError") ELSE FieldOk(v)

\* name: str = Field(...) up to (not including) the class validator
name_type(got) ==
    IF ~got.found THEN FieldErr("MissingError")
    ELSE IF got.val.t = "NoneType" THEN FieldErr("NoneIsNotAllowedError")
    ELSE IF got.val.t # "str" THEN FieldErr("StrError")
    ELSE FieldOk(got.val.v)

\* variant: radius: float with neither the constraint nor the validator
radius_field_unchecked(got) ==
    IF ~got.found THEN FieldErr("MissingError")
    ELSE IF got.val.t = "NoneType" THEN FieldErr("NoneIsNotAllowedError")
    ELSE IF got.val.t # "float" THEN FieldErr("FloatError")
    ELSE FieldOk(got.val.v[1])

\* radius: float = Field(..., gt=0) followed by validate_radius; the chain
\* stops at the first validator that fails
radius_field(got) ==
    IF ~got.found THEN FieldErr("MissingError")
    ELSE IF got.val.t = "NoneType" THEN FieldErr("NoneIsNotAllowedError")
    ELSE IF got.val.t # "float" THEN FieldErr("FloatError")
    ELSE IF ~radius_gt(got.val.v[1]).ok THEN radius_gt(got.val.v[1])
    ELSE validate_radius(got.val.v[1])

\* the same field without the custom validator (gt=0 alone)
radius_field_gt_only(got) ==
    IF ~got.found THEN FieldErr("MissingError")
    ELSE IF got.val.t = "NoneType" THEN FieldErr("NoneIsNotAllowedError")
    ELSE IF got.val.t # "float" THEN FieldErr("FloatError")
    ELSE radius_gt(got.val.v[1])

RECURSIVE StrItems(_)
StrItems(items) ==
    IF items = <<>> THEN <<>> ELSE <<Head(items).v>> \o StrItems(Tail(items))

\* atmosphere_composition: List[str] = Field(...)
atmosphere_field(got) ==
    IF ~got.found THEN FieldErr("MissingError")
    ELSE IF got.val.t = "NoneType" THEN FieldErr("NoneIsNotAllowedError")
    ELSE IF got.val.t # "list" THEN FieldErr("ListError")
    ELSE IF \E i \in 1..Len(got.val.v) : got.val.v[i].t # "str" THEN FieldErr("StrError")
    ELSE FieldOk(StrItems(got.val.v))

\* BaseModel.__init__(**data): the fields are validated in declaration
\* order; an exception that is not a ValueError, TypeError or
\* AssertionError leaves the constructor at once, the others are collected
\* into one ValidationError.  r is the outcome of the radius field's
\* validation.
Validate(data, r) ==
    LET n == name_type(DictGet(data, F_name, Len(data)))
        nv == validate_name(n.v)
        a == atmosphere_field(DictGet(data, F_atmosphere, Len(data)))
        errors == (IF n.ok THEN {} ELSE {"name"})
                    \cup (IF r.ok THEN {} ELSE {"radius"})
                    \cup (IF a.ok THEN {} ELSE {"atmosphere_composition"})
    IN  IF n.ok /\ nv.raised # ""
        THEN [kind |-> nv.raised, planet_name |-> nv.planet_name]
        ELSE IF errors # {} THEN [kind |-> "ValidationError", errors |-> errors]
        ELSE [kind |-> "ok",
              obj |-> [name |-> nv.planet_name, radius |-> r.v,
                       atmosphere_composition |-> a.v]]

AstronomicalBody(data) ==
    Validate(data, radius_field(DictGet(data, F_radius, Len(data))))

\* the model with validate_radius removed
AstronomicalBodyGtOnly(data) ==
    Validate(data, radius_field_gt_only(DictGet(data, F_radius, Len(data))))

\* the keyword arguments name=, radius=, atmosphere_composition=
Kwargs(name, radius, atmosphere) ==
    <<<<F_name, name>>, <<F_radius, radius>>, <<F_atmosphere, atmosphere>>>>

\* self.dict(): the fields in declaration order
ModelDict(self) ==
    PyDict(Kwargs(PyStr(self.name), PyFloat(self.radius),
                  PyList(StrList(self.atmosphere_composition))))

\* def to_json(self): return self.json()
to_json(self) == Dumps(ModelDict(self))

\* variant: a deserializer that does not check the radius it decodes
from_json_lenient(json_str) ==
    LET obj == Loads(json_str)
    IN  IF ~obj.ok THEN [kind |-> "ValidationError", errors |-> {"__root__"}]
        ELSE IF obj.val.t # "dict" THEN [kind |-> "ValidationError", errors |-> {"__root__"}]
        ELSE Validate(obj.val.v,
                      radius_field_unchecked(DictGet(obj.val.v, F_radius, Len(obj.val.v))))

\* def from_json(cls, json_str): return cls.parse_raw(json_str)
from_json(json_str) ==
    LET obj == Loads(json_str)
    IN  IF ~obj.ok THEN [kind |-> "ValidationError", errors |-> {"__root__"}]
        ELSE IF obj.val.t # "dict" THEN [kind |-> "ValidationError", errors |-> {"__root__"}]
        ELSE AstronomicalBody(obj.val.v)

\* BaseModel.__setattr__ under the default Config of the class (no Config
\* is declared: assignment is allowed and not validated)
SetField(self, field, value) ==
    CASE field = "name" -> [self EXCEPT !.name = value]
      [] field = "radius" -> [self EXCEPT !.radius = value]
      [] field = "atmosphere_composition" -> [self EXCEPT !.atmosphere_composition = value]

\* ------------------------------------------------------------------------
\* @dataclass class Star
\* ------------------------------------------------------------------------
PyInt(n) == [t |-> "int", v |-> <<n>>]

\* str(value) as an f-string formats it
Format(val) ==
    CASE val.t = "str" -> val.v
      [] val.t = "int" -> IntStr(val.v[1])
      [] val.t = "float" -> FloatRepr(val.v[1])

\* the generated __init__: the fields are stored as given
Star(name, temperature) == [name |-> name, temperature |-> temperature]

TemperatureOpen == <<" ","(","T","e","m","p","e","r","a","t","u","r","e",":"," ">>

\* variant: a rendering without the unit
Star__str__NoUnit(self) ==
    Format(self.name) \o TemperatureOpen \o Format(self.temperature)

\* def __str__(self)
Star__str__(self) ==
    Format(self.name) \o TemperatureOpen \o Format(self.temperature) \o <<"K">>

\* ------------------------------------------------------------------------
\* def main(): helpers
\* ------------------------------------------------------------------------
SUN == <<"S","u","n">>

\* argparse type=float: float(text), or an argument error
FloatArg(text) ==
    LET r == ParseNumber(text, 1)
    IN  IF r.ok /\ r.end = Len(text) + 1 THEN r ELSE Fail(1)

\* ', '.join(items)
RECURSIVE JoinComma(_)
JoinComma(items) ==
    IF items = <<>> THEN <<>>
    ELSE IF Len(items) = 1 THEN Head(items)
    ELSE Head(items) \o <<",", " ">> \o JoinComma(Tail(items))

\* the four dpg.add_text calls of the window
WindowTexts(b, star) ==
    << [label |-> "Planet Name: ", text |-> b.name, unit |-> ""],
       [label |-> "Radius: ", text |-> FloatRepr(b.radius), unit |-> " km"],
       [label |-> "Atmosphere: ", text |-> JoinComma(b.atmosphere_composition), unit |-> ""],
       [label |-> "Star: ", text |-> Star__str__(star), unit |-> ""] >>

\* the except clauses of main: what is printed for a raised exception
Handler(outcome) ==
    IF outcome.kind = "ValidationError"
    THEN [line |-> "Validation Error:", text |-> <<>>]
    ELSE [line |-> "Invalid planet name: ", text |-> outcome.planet_name]

\* ------------------------------------------------------------------------
\* Inputs
\* ------------------------------------------------------------------------
PLUTO == <<"P","l","u","t","o">>
NameInputs == {MERCURY, VENUS, EARTH, MARS, PLUTO, <<"e","a","r","t","h">>, <<>>}

Radii == (-MaxTenths .. MaxTenths) \cup {10, 125, 63710, -1005}

Gases == { <<"N","2">>, <<"O","2">>, <<"\"","\\",",">> }

RECURSIVE SeqsUpTo(_, _)
SeqsUpTo(S, n) ==
    IF n = 0 THEN {<<>>}
    ELSE LET shorter == SeqsUpTo(S, n - 1)
         IN  shorter \cup {Append(q, e) : q \in shorter, e \in S}

GasLists == SeqsUpTo(Gases, MaxGases)

\* values given for atmosphere_composition: None or a list of str
AtmosphereInputs == {PyNone} \cup {PyList(StrList(g)) : g \in GasLists}

RadiusTexts == {FloatRepr(r) : r \in Radii} \cup {<<"7">>, <<"a","b","c">>}

StarNames == {PyStr(SUN), PyStr(<<>>), PyStr(PLUTO)}
Temperatures == {PyInt(5778), PyInt(0), PyInt(-273), PyFloat(57780), PyFloat(-5)}

\* ------------------------------------------------------------------------
\* State
\* ------------------------------------------------------------------------
Unbound == [unbound |-> TRUE]
NoResult == [kind |-> "none"]

VARIABLES
    pc,             \* the last operation performed / the position in main
    argv,           \* the command line given to main
    args,           \* the arguments of the last constructor call
    result,         \* outcome of the last AstronomicalBody(...) call
    body,           \* the instance bound to body, or Unbound
    json_data,      \* the text passed between to_json and from_json
    parsed,         \* outcome of the last from_json call
    restored_body,  \* the instance bound to restored_body, or Unbound
    sun,            \* the Star instance, or Unbound
    rendered,       \* str(sun)
    stdout,         \* the lines printed by main
    display,        \* the text items of the window
    exc             \* the exception that left main, "" if none

vars == <<pc, argv, args, result, body, json_data, parsed, restored_body,
          sun, rendered, stdout, display, exc>>

Init ==
    /\ pc = "idle"
    /\ argv = Unbound
    /\ args = Unbound
    /\ result = NoResult
    /\ body = Unbound
    /\ json_data = <<>>
    /\ parsed = NoResult
    /\ restored_body = Unbound
    /\ sun = Unbound
    /\ rendered = <<>>
    /\ stdout = <<>>
    /\ display = <<>>
    /\ exc = ""

Instance(outcome) == IF outcome.kind = "ok" THEN outcome.obj ELSE Unbound

ArgsKwargs(a) == Kwargs(a.name, a.radius, a.atmosphere)

\* ------------------------------------------------------------------------
\* Operations of the classes
\* ------------------------------------------------------------------------
\* body = AstronomicalBody(name=..., radius=..., atmosphere_composition=...)
New(name, radius, atmosphere) ==
    /\ pc = "idle"
    /\ args' = [name |-> PyStr(name), radius |-> PyFloat(radius), atmosphere |-> atmosphere]
    /\ result' = AstronomicalBody(ArgsKwargs(args'))
    /\ body' = Instance(result')
    /\ pc' = "new"
    /\ UNCHANGED <<argv, json_data, parsed, restored_body, sun, rendered, stdout, display, exc>>

\* body.<field> = value
SetAttr(field, value) ==
    /\ pc = "new"
    /\ body # Unbound
    /\ body' = SetField(body, field, value)
    /\ pc' = "setattr"
    /\ UNCHANGED <<argv, args, result, json_data, parsed, restored_body, sun, rendered, stdout, display, exc>>

\* json_data = body.to_json()
ToJson ==
    /\ pc \in {"new", "setattr"}
    /\ body # Unbound
    /\ json_data' = to_json(body)
    /\ pc' = "to_json"
    /\ UNCHANGED <<argv, args, result, body, parsed, restored_body, sun, rendered, stdout, display, exc>>

\* restored_body = AstronomicalBody.from_json(json_data)
FromJson ==
    /\ pc = "to_json"
    /\ parsed' = from_json(json_data)
    /\ restored_body' = Instance(parsed')
    /\ pc' = "from_json"
    /\ UNCHANGED <<argv, args, result, body, json_data, sun, rendered, stdout, display, exc>>

\* AstronomicalBody.from_json(text) on the encoding of the constructor's
\* arguments, whole (cut = 0) or with its last cut characters missing
FromJsonPayload(cut) ==
    /\ pc = "new"
    /\ LET text == Dumps(PyDict(ArgsKwargs(args)))
       IN  json_data' = SubSeq(text, 1, Len(text) - cut)
    /\ parsed' = from_json(json_data')
    /\ restored_body' = Instance(parsed')
    /\ pc' = "from_json_payload"
    /\ UNCHANGED <<argv, args, result, body, sun, rendered, stdout, display, exc>>

\* sun = Star(name, temperature)
NewStar(name, temperature) ==
    /\ pc = "idle"
    /\ args' = [name |-> name, temperature |-> temperature]
    /\ sun' = Star(name, temperature)
    /\ pc' = "star"
    /\ UNCHANGED <<argv, result, body, json_data, parsed, restored_body, rendered, stdout, display, exc>>

\* str(sun)
StrStar ==
    /\ pc = "star"
    /\ rendered' = Star__str__(sun)
    /\ pc' = "str"
    /\ UNCHANGED <<argv, args, result, body, json_data, parsed, restored_body, sun, stdout, display, exc>>

\* ------------------------------------------------------------------------
\* def main()
\* ------------------------------------------------------------------------
\* args = parser.parse_args(): --name and --radius are required, --radius is
\* a float, --atmosphere (nargs='+') is None when the flag is absent and
\* needs at least one value when it is present
ParseArgs(name, radiusText, atmosphere) ==
    /\ pc = "idle"
    /\ argv' = [name |-> name, radius |-> radiusText, atmosphere |-> atmosphere]
    /\ IF ~FloatArg(radiusText).ok \/ (atmosphere.t = "list" /\ atmosphere.v = <<>>)
       THEN /\ exc' = "SystemExit"
            /\ pc' = "exit2"
            /\ UNCHANGED args
       ELSE /\ args' = [name |-> PyStr(name), radius |-> FloatArg(radiusText).val,
                        atmosphere |-> atmosphere]
            /\ pc' = "main_try"
            /\ UNCHANGED exc
    /\ UNCHANGED <<result, body, json_data, parsed, restored_body, sun, rendered, stdout, display>>

\* body = AstronomicalBody(...); print("Astronomical Body Created:", body)
MainConstruct ==
    /\ pc = "main_try"
    /\ result' = AstronomicalBody(ArgsKwargs(args))
    /\ IF result'.kind = "ok"
       THEN /\ body' = result'.obj
            /\ stdout' = Append(stdout, [line |-> "Astronomical Body Created:", text |-> <<>>])
            /\ pc' = "main_serialize"
       ELSE /\ UNCHANGED body
            /\ stdout' = Append(stdout, Handler(result'))
            /\ pc' = "main_star"
    /\ UNCHANGED <<argv, args, json_data, parsed, restored_body, sun, rendered, display, exc>>

\* print("Serialized to JSON:", body.to_json()); json_data = body.to_json()
MainSerialize ==
    /\ pc = "main_serialize"
    /\ stdout' = Append(stdout, [line |-> "Serialized to JSON:", text |-> to_json(body)])
    /\ json_data' = to_json(body)
    /\ pc' = "main_deserialize"
    /\ UNCHANGED <<argv, args, result, body, parsed, restored_body, sun, rendered, display, exc>>

\* restored_body = AstronomicalBody.from_json(json_data); print(...)
MainDeserialize ==
    /\ pc = "main_deserialize"
    /\ parsed' = from_json(json_data)
    /\ IF parsed'.kind = "ok"
       THEN /\ restored_body' = parsed'.obj
            /\ stdout' = stdout \o << [line |-> "Deserializing from JSON...", text |-> <<>>],
                                      [line |-> "Restored Astronomical Body:", text |-> <<>>] >>
       ELSE /\ UNCHANGED restored_body
            /\ stdout' = stdout \o << [line |-> "Deserializing from JSON...", text |-> <<>>],
                                      Handler(parsed') >>
    /\ pc' = "main_star"
    /\ UNCHANGED <<argv, args, result, body, json_data, sun, rendered, display, exc>>

\* sun = Star(name="Sun", temperature=5778); print(sun)
MainStar ==
    /\ pc = "main_star"
    /\ sun' = Star(PyStr(SUN), PyInt(5778))
    /\ rendered' = Star__str__(sun')
    /\ stdout' = Append(stdout, [line |-> "", text |-> rendered'])
    /\ pc' = "main_window"
    /\ UNCHANGED <<argv, args, result, body, json_data, parsed, restored_body, display, exc>>

\* dpg.create_context(); with dpg.window(...): four add_text calls.  Reading
\* body when no assignment to it was executed raises UnboundLocalError.
MainWindow ==
    /\ pc = "main_window"
    /\ IF body = Unbound
       THEN /\ exc' = "UnboundLocalError"
            /\ pc' = "crashed"
            /\ UNCHANGED display
       ELSE /\ display' = WindowTexts(body, sun)
            /\ pc' = "main_viewport"
            /\ UNCHANGED exc
    /\ UNCHANGED <<argv, args, result, body, json_data, parsed, restored_body, sun, rendered, stdout>>

\* create_viewport ... start_dearpygui(); dpg.destroy_context()
MainRun ==
    /\ pc = "main_viewport"
    /\ pc' = "done"
    /\ UNCHANGED <<argv, args, result, body, json_data, parsed, restored_body, sun, rendered, stdout, display, exc>>

Next ==
    \/ \E n \in NameInputs, r \in Radii, a \in AtmosphereInputs : New(n, r, a)
    \/ \E n \in NameInputs : SetAttr("name", n)
    \/ \E r \in Radii : SetAttr("radius", r)
    \/ \E g \in GasLists : SetAttr("atmosphere_composition", g)
    \/ ToJson
    \/ FromJson
    \/ \E cut \in 0 .. MaxCut : FromJsonPayload(cut)
    \/ \E n \in StarNames, t \in Temperatures : NewStar(n, t)
    \/ StrStar
    \/ \E n \in NameInputs, r \in RadiusTexts, a \in AtmosphereInputs : ParseArgs(n, r, a)
    \/ MainConstruct
    \/ MainSerialize
    \/ MainDeserialize
    \/ MainStar
    \/ MainWindow
    \/ MainRun

Spec == Init /\ [][Next]_vars

\* ------------------------------------------------------------------------
\* Properties
\* ------------------------------------------------------------------------
Failed(outcome) == outcome.kind \in {"ValidationError", "InvalidPlanetNameException"}

Valid(b) == b.name \in AcceptedNames /\ b.radius > 0

QUOTE_GAS == <<"\"","\\",",">>

\* C1: a constructor call with a name outside the accepted set fails with
\* InvalidPlanetNameException carrying that very name, whatever radius and
\* atmosphere_composition came with it, and binds no record.
C1_InvalidNameRaises ==
    (result # NoResult /\ args.name.v \notin AcceptedNames)
        => /\ result.kind = "InvalidPlanetNameException"
           /\ result.planet_name = args.name.v
           /\ body = Unbound

C1_Witness ==
    /\ result.kind = "InvalidPlanetNameException"
    /\ result.planet_name = PLUTO
    /\ args.radius.v[1] <= 0
    /\ args.atmosphere = PyNone

\* C2 as stated: a constructor call with radius <= 0 fails with
\* ValidationError, whatever the name and atmosphere_composition, and binds
\* no record.
C2_Original ==
    (result # NoResult /\ args.radius.v[1] <= 0)
        => (result.kind = "ValidationError" /\ body = Unbound)

\* C2 amended: a constructor call with radius <= 0 fails and binds no
\* record, whatever the atmosphere_composition: with ValidationError (naming
\* the radius field) when the name is in the accepted set, and with
\* InvalidPlanetNameException when it is not.
C2_NonPositiveRadiusFails ==
    (result # NoResult /\ args.radius.v[1] <= 0)
        => /\ body = Unbound
           /\ args.name.v \in AcceptedNames
                => (result.kind = "ValidationError" /\ "radius" \in result.errors)
           /\ args.name.v \notin AcceptedNames
                => result.kind = "InvalidPlanetNameException"

C2_Witness ==
    /\ result.kind = "ValidationError"
    /\ args.name.v = MARS
    /\ args.radius.v[1] = 0
    /\ args.atmosphere = PyList(<<>>)

\* C3 as stated: once a construction or deserialization has failed in main,
\* main raises no further error and runs to its normal end.
C3_Original ==
    (argv # Unbound /\ (Failed(result) \/ Failed(parsed)))
        => (exc = "" /\ pc # "crashed")

\* C4 as stated: every AstronomicalBody instance that exists has a name in
\* the accepted set and a radius > 0.
C4_Original ==
    /\ body # Unbound => Valid(body)
    /\ restored_body # Unbound => Valid(restored_body)

\* C5: deserializing the serialization of a valid record succeeds and gives
\* a record with the same name, radius and atmosphere_composition.
C5_RoundTrip ==
    (parsed # NoResult /\ pc # "from_json_payload" /\ body # Unbound /\ Valid(body))
        => /\ parsed.kind = "ok"
           /\ restored_body # Unbound
           /\ restored_body.name = body.name
           /\ restored_body.radius = body.radius
           /\ restored_body.atmosphere_composition = body.atmosphere_composition

C5_Witness ==
    /\ pc = "from_json"
    /\ restored_body = body
    /\ body.radius = 63710
    /\ body.atmosphere_composition = <<QUOTE_GAS, QUOTE_GAS>>

\* C6: a constructor call with a name of the accepted set, a radius > 0 and
\* a list of strings succeeds, and the record has exactly the given name,
\* radius and list (same length, same elements in the same order).
C6_ValidInputsConstruct ==
    (result # NoResult /\ args.name.v \in AcceptedNames /\ args.radius.v[1] > 0
        /\ args.atmosphere.t = "list")
        => /\ result.kind = "ok"
           /\ result.obj.name = args.name.v
           /\ result.obj.radius = args.radius.v[1]
           /\ Len(result.obj.atmosphere_composition) = Len(args.atmosphere.v)
           /\ \A i \in 1 .. Len(args.atmosphere.v) :
                result.obj.atmosphere_composition[i] = args.atmosphere.v[i].v
           /\ pc = "new" => body = result.obj

C6_Witness ==
    /\ pc = "new"
    /\ result.kind = "ok"
    /\ body.name = MARS
    /\ Len(body.atmosphere_composition) = 2
    /\ body.atmosphere_composition[1] = body.atmosphere_composition[2]

\* C7: from_json on the encoding of (name, radius, atmosphere) has the same
\* outcome as the constructor on those values (same record, or the same
\* error kind with the same name or the same fields in error); on a text
\* that is cut short it fails; and whatever it returns is a whole, valid
\* record.
C7_FromJsonAsConstructor ==
    pc = "from_json_payload"
        => /\ IF json_data = Dumps(PyDict(ArgsKwargs(args)))
              THEN parsed = result /\ restored_body = body
              ELSE parsed.kind = "ValidationError" /\ restored_body = Unbound
           /\ restored_body # Unbound
                => (Valid(restored_body) /\ parsed.kind = "ok" /\ restored_body = parsed.obj)

C7_Witness ==
    /\ pc = "from_json_payload"
    /\ parsed.kind = "InvalidPlanetNameException"
    /\ parsed.planet_name = args.name.v
    /\ args.radius.v[1] < 0

\* C8 as stated: a command line with an accepted name and a radius > 0 is
\* accepted whether --atmosphere is absent, present without values or
\* present with values: main ends normally with the record constructed,
\* round-tripped and shown (the atmosphere text empty when no gas was given).
C8_Original ==
    (/\ argv # Unbound
     /\ argv.name \in AcceptedNames
     /\ FloatArg(argv.radius).ok
     /\ FloatArg(argv.radius).val.v[1] > 0
     /\ pc \in {"exit2", "crashed", "done"})
        => /\ pc = "done"
           /\ body # Unbound
           /\ restored_body = body
           /\ Len(display) = 4
           /\ argv.atmosphere \in {PyNone, PyList(<<>>)} => display[3].text = <<>>

\* C9: Star(name, temperature) stores both values as given, whatever they
\* are, and str(star) is the name, then " (Temperature: ", then the
\* temperature as Python prints it, then "K"; Star("Sun", 5778) gives
\* "Sun (Temperature: 5778K)".
C9_StarRendering ==
    /\ pc = "star" => (sun.name = args.name /\ sun.temperature = args.temperature)
    /\ pc = "str" =>
        LET n == Len(sun.name.v)
            t == Len(Format(sun.temperature))
        IN  /\ sun.name = args.name /\ sun.temperature = args.temperature
            /\ Len(rendered) = n + 15 + t + 1
            /\ SubSeq(rendered, 1, n) = sun.name.v
            /\ SubSeq(rendered, n + 1, n + 15)
                 = <<" ","(","T","e","m","p","e","r","a","t","u","r","e",":"," ">>
            /\ SubSeq(rendered, n + 16, n + 15 + t) = Format(sun.temperature)
            /\ rendered[Len(rendered)] = "K"
    /\ (sun # Unbound /\ rendered # <<>> /\ sun.name = PyStr(<<"S","u","n">>)
            /\ sun.temperature = PyInt(5778))
        => rendered = <<"S","u","n"," ","(","T","e","m","p","e","r","a","t","u","r","e",
                        ":"," ","5","7","7","8","K">>

C9_Witness ==
    /\ pc = "str"
    /\ sun.name = PyStr(<<>>)
    /\ sun.temperature = PyInt(-273)
    /\ rendered = <<" ","(","T","e","m","p","e","r","a","t","u","r","e",":"," ",
                    "-","2","7","3","K">>

\* C10: the model without validate_radius gives, for every constructor
\* call, the outcome the model with it gives; and validate_radius accepts
\* every radius the constraint gt=0 accepts.
C10_RadiusValidatorRedundant ==
    /\ result # NoResult => result = AstronomicalBodyGtOnly(ArgsKwargs(args))
    /\ result # NoResult =>
         (radius_gt(args.radius.v[1]).ok => validate_radius(args.radius.v[1]).ok)

C10_Witness ==
    /\ result.kind = "ok"
    /\ args.radius.v[1] = 1
    /\ body # Unbound

====
